---- MODULE Spec2Model ----
(***************************************************************************)
(* A model of src/bot.py: the indicator engine (calculate_ema,             *)
(* calculate_rsi, calculate_macd), the signal evaluator in its live        *)
(* (check_daily_strategy) and backtest (backtest_strategy) modes, the      *)
(* /check and /backtest command handlers, and the watchlist scan           *)
(* (send_auto_signals) started by the two timers and by /scan.             *)
(*                                                                         *)
(* Floating-point numbers are fixed-point values in units of 1/Scale,      *)
(* carried in records that also represent NaN and the infinities, so that  *)
(* IEEE comparisons (false on NaN) and divisions by zero behave as in the  *)
(* code.  Python indices are kept 0-based through At(s, i).                *)
(*                                                                         *)
(* Two specifications:                                                     *)
(*   SpecEngine  one fetched series, drawn from a family of price/volume   *)
(*               series, evaluated by /check and by /backtest;             *)
(*   Spec        scan passes of send_auto_signals on the asyncio event     *)
(*               loop, interleaving at their await points.                 *)
(***************************************************************************)
EXTENDS Integers, Sequences, FiniteSets, TLC

VARIABLES
    \* ---- on-demand commands (SpecEngine) ----
    feed,       \* what the market data source returns for the ticker
    data,       \* the DataFrame after indicator augmentation (or NoData)
    live,       \* check_daily_strategy: its return value and what it did
    reply,      \* what /check sent back to the user
    bt,         \* backtest_strategy: loop position, signals, result
    \* ---- watchlist scans (Spec) ----
    CHAT_ID,    \* os.getenv('TELEGRAM_CHAT_ID')
    running,    \* the pass that holds the event loop (0: the loop is free)
    pc,         \* per pass: where send_auto_signals stands
    now,        \* per pass: datetime.now(ist) as read at the gates
    idx,        \* per pass: position of the for loop in NIFTY_200
    signals_found, \* per pass: the local counter
    result,     \* per pass: (has_signal, message, chart) of the current ticker
    attempted,  \* per pass: tickers handed to check_daily_strategy, in order
    tally,      \* per pass: how many tickers ended in each outcome
    sent        \* per pass: calls made to the bot API, in order

engineVars == <<feed, data, live, reply, bt>>
scanVars == <<CHAT_ID, running, pc, now, idx, signals_found, result,
              attempted, tally, sent>>
vars == <<feed, data, live, reply, bt, CHAT_ID, running, pc, now, idx,
          signals_found, result, attempted, tally, sent>>

-----------------------------------------------------------------------------
(* Bounds of the model *)

\* fixed-point resolution: one unit is 1/Scale
Scale == 1000
\* longest fetched series
MaxBars == 53
\* number of trailing bars that vary; the bars before them are flat
TailLen == 4
\* how many tickers of NIFTY_200 a scan pass iterates over
WatchLen == 3

(* Program constants *)

MIN_BARS == 50
RSI_WINDOW == 14
RSI_LOW == 40
RSI_HIGH == 70
LOOKBACK_DAYS == 700
\* the first index of backtest_strategy's loop: range(50, len(data))
RANGE_START == 50

-----------------------------------------------------------------------------
(* Python values *)

None == [tag |-> "None"]
\* a str, as the tuple of its format and arguments; "" is <<>>
Str(t) == [tag |-> "str", val |-> t]
Truthy(x) == x.tag # "None" /\ x.val # <<>>

\* 0-based indexing
At(s, i) == s[i + 1]
\* s.iloc[a:b] for 0 <= a <= b <= len(s)
Slice(s, a, b) == SubSeq(s, a + 1, b)

\* F applied to the value of v, which is computed once
With(v, F(_)) == CHOOSE r \in {F(x) : x \in {v}} : TRUE

RECURSIVE SumSeq(_)
SumSeq(s) == IF s = <<>> THEN 0 ELSE Head(s) + SumSeq(Tail(s))

-----------------------------------------------------------------------------
(* Floats *)

Num(v) == [k |-> "num", v |-> v]
NaN == [k |-> "nan", v |-> 0]
PInf == [k |-> "inf", v |-> 1]
NInf == [k |-> "inf", v |-> -1]

\* float(n) for an int n
ToF(n) == Num(n * Scale)

\* IEEE order comparisons: false when either side is NaN
FGt(a, b) ==
    /\ a.k # "nan" /\ b.k # "nan"
    /\ CASE a.k = "num" /\ b.k = "num" -> a.v > b.v
         [] a.k = "inf" /\ b.k = "inf" -> a.v > b.v
         [] a.k = "inf" -> a.v > 0
         [] OTHER -> b.v < 0
FGe(a, b) == FGt(a, b) \/ (a.k # "nan" /\ a = b)
FLe(a, b) == FGe(b, a)

FNeg(a) == IF a.k = "nan" THEN NaN ELSE [k |-> a.k, v |-> -a.v]
FAdd(a, b) ==
    CASE a.k = "nan" \/ b.k = "nan" -> NaN
      [] a.k = "inf" /\ b.k = "inf" -> IF a.v = b.v THEN a ELSE NaN
      [] a.k = "inf" -> a
      [] b.k = "inf" -> b
      [] OTHER -> Num(a.v + b.v)
FSub(a, b) == FAdd(a, FNeg(b))
\* numpy division: x/0 is +-inf, 0/0 is NaN, x/inf is 0
FDiv(a, b) ==
    CASE a.k = "nan" \/ b.k = "nan" -> NaN
      [] a.k = "inf" /\ b.k = "inf" -> NaN
      [] a.k = "inf" -> IF b.v < 0 THEN FNeg(a) ELSE a
      [] b.k = "inf" -> Num(0)
      [] b.v = 0 -> IF a.v = 0 THEN NaN ELSE IF a.v > 0 THEN PInf ELSE NInf
      [] OTHER -> Num((a.v * Scale) \div b.v)

-----------------------------------------------------------------------------
(* Technical indicators *)

\* Series.ewm(span=span, adjust=False).mean(): pandas' recursion, with its
\* treatment of NaN (ignore_na=False): leading NaN stay NaN, a NaN inside the
\* series repeats the last mean and ages its weight old_wt = n/d.
EwmStep(acc, cur, span) ==
    LET n1 == acc.n * (span - 1)
        d1 == acc.d * (span + 1)
        nxt ==
            IF acc.w.k # "nan"
            THEN IF cur.k # "nan"
                 THEN [w |-> IF acc.w = cur THEN acc.w
                             ELSE Num((n1 * (span + 1) * acc.w.v + 2 * d1 * cur.v)
                                      \div (n1 * (span + 1) + 2 * d1)),
                       n |-> 1, d |-> 1]
                 ELSE [w |-> acc.w, n |-> n1, d |-> d1]
            ELSE [w |-> cur, n |-> 1, d |-> 1]
    IN  [out |-> Append(acc.out, nxt.w), w |-> nxt.w, n |-> nxt.n, d |-> nxt.d]

\* the loop over the values that follow those already in acc.out
RECURSIVE EwmFrom(_, _, _)
EwmFrom(acc, vals, span) ==
    IF Len(acc.out) >= Len(vals) THEN acc.out
    ELSE EwmFrom(EwmStep(acc, vals[Len(acc.out) + 1], span), vals, span)

Ewm(vals, span) ==
    IF vals = <<>> THEN <<>>
    ELSE EwmFrom([out |-> <<vals[1]>>, w |-> vals[1], n |-> 1, d |-> 1], vals, span)

CloseF(d) == [i \in 1..Len(d.Close) |-> ToF(d.Close[i])]

calculate_ema(d, window) == Ewm(CloseF(d), window)

\* data['Close'].diff(): NaN at the first bar
Diff(close) ==
    [i \in 1..Len(close) |-> IF i = 1 THEN NaN ELSE ToF(close[i] - close[i - 1])]

\* s.rolling(window).mean(): NaN until the window is full
RollingMean(s, window) ==
    [i \in 1..Len(s) |->
        IF i < window THEN NaN
        ELSE Num(SumSeq([j \in 1..window |-> s[i - window + j].v]) \div window)]

calculate_rsi(d, window) ==
    LET delta == Diff(d.Close)
        \* delta.where(delta > 0, 0): NaN > 0 is false, so NaN becomes 0
        up == [i \in 1..Len(delta) |->
                 IF FGt(delta[i], Num(0)) THEN delta[i] ELSE Num(0)]
        dn == [i \in 1..Len(delta) |->
                 FNeg(IF FGt(Num(0), delta[i]) THEN delta[i] ELSE Num(0))]
        gain == RollingMean(up, window)
        loss == RollingMean(dn, window)
    IN  [i \in 1..Len(delta) |->
            LET rs == FDiv(gain[i], loss[i])
            IN  FSub(ToF(100), FDiv(ToF(100), FAdd(ToF(1), rs)))]

calculate_macd(d) ==
    LET ema12 == Ewm(CloseF(d), 12)
        ema26 == Ewm(CloseF(d), 26)
        macd_line == [i \in 1..Len(ema12) |-> FSub(ema12[i], ema26[i])]
        signal_line == Ewm(macd_line, 9)
        histogram == [i \in 1..Len(ema12) |-> FSub(macd_line[i], signal_line[i])]
    IN  <<macd_line, signal_line, histogram>>

\* the indicator columns both modes add to the frame
Augment(d) ==
    LET rsi == calculate_rsi(d, RSI_WINDOW)
        macd == calculate_macd(d)
    IN  [Close |-> CloseF(d),
         Volume |-> d.Volume,
         EMA_9 |-> calculate_ema(d, 9),
         EMA_20 |-> calculate_ema(d, 20),
         EMA_21 |-> calculate_ema(d, 21),
         EMA_50 |-> calculate_ema(d, 50),
         RSI |-> rsi,
         RSI_EMA_20 |-> Ewm(rsi, 20),
         MACD_Line |-> macd[1],
         Signal_Line |-> macd[2],
         MACD_Hist |-> macd[3]]

-----------------------------------------------------------------------------
(* The rule *)

\* s.iloc[k] with Python's negative indices
ILoc(s, k) == IF k < 0 THEN s[Len(s) + k + 1] ELSE s[k + 1]

\* s.iloc[a:b].mean() of an int column
Mean(s) == IF s = <<>> THEN NaN ELSE Num((SumSeq(s) * Scale) \div Len(s))

\* check_daily_strategy: latest = data.iloc[-1], previous = data.iloc[-2],
\* the volume window data['Volume'].iloc[-5:-1]
LiveConditions(df) ==
    LET n == Len(df.Close)
        avg_volume_4 == Mean(Slice(df.Volume, n - 5, n - 1))
        volume_condition == FGt(ToF(ILoc(df.Volume, -1)), avg_volume_4)
        condition1 == /\ FGt(ILoc(df.Close, -1), ILoc(df.EMA_50, -1))
                      /\ FLe(ILoc(df.Close, -2), ILoc(df.EMA_50, -2))
        condition2 == /\ FGt(ILoc(df.EMA_50, -1), ILoc(df.EMA_9, -1))
                      /\ FGt(ILoc(df.EMA_50, -1), ILoc(df.EMA_21, -1))
        condition3 == /\ FLe(ToF(RSI_LOW), ILoc(df.RSI, -1))
                      /\ FLe(ILoc(df.RSI, -1), ToF(RSI_HIGH))
                      /\ FGt(ILoc(df.RSI, -1), ILoc(df.RSI_EMA_20, -1))
        condition4 == FGt(ILoc(df.MACD_Hist, -1), Num(0))
        condition5 == volume_condition
    IN  <<condition1, condition2, condition3, condition4, condition5>>

\* backtest_strategy at loop index i: latest = data.iloc[i],
\* previous = data.iloc[i - 1], the volume window iloc[i - 5:i - 1]
BacktestConditions(df, i) ==
    LET avg_volume_4 == Mean(Slice(df.Volume, i - 5, i - 1))
        condition1 == /\ FGt(At(df.Close, i), At(df.EMA_50, i))
                      /\ FLe(At(df.Close, i - 1), At(df.EMA_50, i - 1))
        condition2 == /\ FGt(At(df.EMA_50, i), At(df.EMA_9, i))
                      /\ FGt(At(df.EMA_50, i), At(df.EMA_21, i))
        condition3 == /\ FLe(ToF(RSI_LOW), At(df.RSI, i))
                      /\ FLe(At(df.RSI, i), ToF(RSI_HIGH))
                      /\ FGt(At(df.RSI, i), At(df.RSI_EMA_20, i))
        condition4 == FGt(At(df.MACD_Hist, i), Num(0))
        volume_condition == FGt(ToF(At(df.Volume, i)), avg_volume_4)
    IN  <<condition1, condition2, condition3, condition4, volume_condition>>

\* all([...])
All(conds) == \A k \in 1..Len(conds) : conds[k]

-----------------------------------------------------------------------------
(* Formatting *)

\* f"{x:.2f}" and f"{x:.1f}": the value rounded to hundredths / tenths
Fmt2(x) == <<".2f", (x.v * 100 + Scale \div 2) \div Scale>>
Fmt1(x) == <<".1f", (x.v * 10 + Scale \div 2) \div Scale>>
\* t.strftime('%Y-%m-%d') of the bar's timestamp
StrfTime(t) == <<"%Y-%m-%d", t>>

NoData == [tag |-> "None"]

-----------------------------------------------------------------------------
(* check_daily_strategy *)

\* fetched: [ok |-> TRUE, Index, Close, Volume], or [ok |-> FALSE, err] when
\* yfinance raises; renderOk: whether the matplotlib block runs through.
\* Returns the function's return value ret = <<has_signal, message, chart>>
\* with what it did on the way: the augmented frame, the index whose row it
\* evaluated, whether it started to render the chart.
check_daily_strategy(ticker_symbol, fetched, renderOk) ==
    LET Caught(e) ==
            [ret |-> <<FALSE, Str(<<"Error checking {}: {}", ticker_symbol, e>>), None>>,
             df |-> NoData, evalIdx |-> -1, rendered |-> FALSE]
    IN
    IF ~fetched.ok THEN Caught(fetched.err)
    ELSE IF Len(fetched.Close) < MIN_BARS
    THEN [ret |-> <<FALSE, Str(<<"Insufficient data">>), None>>,
          df |-> NoData, evalIdx |-> -1, rendered |-> FALSE]
    ELSE With(Augment(fetched), LAMBDA df :
        IF All(LiveConditions(df))
        THEN IF ~renderOk
             THEN [Caught("savefig") EXCEPT !.df = df, !.evalIdx = Len(df.Close) - 1,
                                            !.rendered = TRUE]
             ELSE [ret |-> <<TRUE,
                             Str(<<"STRONG BUY {} {} Price {} RSI {}",
                                   ticker_symbol,
                                   StrfTime(ILoc(fetched.Index, -1)),
                                   Fmt2(ILoc(df.Close, -1)),
                                   Fmt1(ILoc(df.RSI, -1))>>),
                             [tag |-> "png", title |-> ticker_symbol]>>,
                   df |-> df, evalIdx |-> Len(df.Close) - 1, rendered |-> TRUE]
        ELSE [ret |-> <<FALSE, None, None>>,
              df |-> df, evalIdx |-> Len(df.Close) - 1, rendered |-> FALSE])

-----------------------------------------------------------------------------
(* The fetched series of SpecEngine *)

\* close prices: the level of the flat bars and the levels of the trailing bars
CloseLevels == [flat |-> 100, tail |-> {95, 103}]
\* volume shapes: constant; growing by one each bar
VolShapes == {"flat", "rising"}
Lengths == (MIN_BARS - 1)..MaxBars

MkSeries(n, tail, shape) ==
    [ok |-> TRUE,
     Index |-> [i \in 1..n |-> i - 1],
     Close |-> [i \in 1..n |->
                  IF i <= n - TailLen THEN CloseLevels.flat ELSE tail[i - (n - TailLen)]],
     Volume |-> [i \in 1..n |-> IF shape = "flat" THEN 1000 ELSE 1000 + i]]

FetchError == [ok |-> FALSE, err |-> "HTTPError"]

Feeds ==
    {MkSeries(n, tail, shape) :
        n \in Lengths,
        tail \in [1..TailLen -> CloseLevels.tail],
        shape \in VolShapes}
    \cup {FetchError}

-----------------------------------------------------------------------------
(* Command arguments *)

RawArgs == {<<>>, <<"infy">>}
\* str.upper() on the symbols of RawArgs
Upper(sym) == CASE sym = "infy" -> "INFY" [] sym = "tcs.ns" -> "TCS.NS" [] OTHER -> sym
\* '.' in ticker
HasDot(sym) == sym \in {"tcs.ns", "TCS.NS", "INFY.NS"}
\* ticker += '.NS'
AppendNS(sym) == CASE sym = "INFY" -> "INFY.NS" [] sym = "infy" -> "infy.NS" [] OTHER -> sym
\* ticker = context.args[0].upper(); if '.' not in ticker: ticker += '.NS'
Ticker(args) == LET t == Upper(args[1]) IN IF HasDot(t) THEN t ELSE AppendNS(t)

-----------------------------------------------------------------------------
(* The scan's state *)

\* two passes of send_auto_signals may be active at once
Passes == {1, 2}

NIFTY_200 == <<"RELIANCE.NS", "TATASTEEL.NS", "HDFCBANK.NS", "INFY.NS", "TCS.NS",
               "ICICIBANK.NS", "KOTAKBANK.NS", "HINDUNILVR.NS", "ITC.NS", "SBIN.NS">>
\* the tickers the modelled pass iterates over
Watchlist == SubSeq(NIFTY_200, 1, WatchLen)

\* datetime.time(h, m, s), compared field by field as Python does
Time(h, m, s) == [h |-> h, m |-> m, s |-> s]
TimeLe(a, b) ==
    \/ a.h < b.h
    \/ a.h = b.h /\ a.m < b.m
    \/ a.h = b.h /\ a.m = b.m /\ a.s <= b.s
market_open == Time(9, 15, 0)
market_close == Time(15, 30, 0)

\* values datetime.now(ist) takes: weekday() (Monday is 0) and time()
Nows == {[weekday |-> 0, time |-> Time(9, 15, 0)],
         [weekday |-> 4, time |-> Time(15, 30, 0)],
         [weekday |-> 4, time |-> Time(9, 14, 59)],
         [weekday |-> 2, time |-> Time(15, 30, 1)],
         [weekday |-> 5, time |-> Time(12, 0, 0)],
         [weekday |-> 6, time |-> Time(9, 15, 0)]}

\* values of the TELEGRAM_CHAT_ID environment variable: unset, empty, set
ChatIds == {None, Str(<<>>), Str(<<"-1001">>)}

\* what yfinance may return for a ticker during a scan: a failure, 49 bars,
\* 50 bars on flat volume, 50 bars on rising volume
Zigzag == [k \in 1..TailLen |-> IF (TailLen - k) % 2 = 0 THEN 103 ELSE 95]
ScanFeeds == {FetchError,
              MkSeries(MIN_BARS - 1, Zigzag, "rising"),
              MkSeries(MIN_BARS, Zigzag, "flat"),
              MkSeries(MIN_BARS, Zigzag, "rising")}

LiveIdle == [done |-> FALSE]
BtIdle == [pc |-> "idle", ticker |-> "", i |-> 0, signals |-> <<>>,
           visited |-> <<>>, result |-> None]
NoResult == <<FALSE, None, None>>
NoTally == [positive |-> 0, insufficient |-> 0, negative |-> 0, errors |-> 0,
            undelivered |-> 0]
NoNow == [weekday |-> 0, time |-> Time(0, 0, 0)]

ScanIdle ==
    /\ running = 0
    /\ pc = [p \in Passes |-> "idle"]
    /\ now = [p \in Passes |-> NoNow]
    /\ idx = [p \in Passes |-> 0]
    /\ signals_found = [p \in Passes |-> 0]
    /\ result = [p \in Passes |-> NoResult]
    /\ attempted = [p \in Passes |-> <<>>]
    /\ tally = [p \in Passes |-> NoTally]
    /\ sent = [p \in Passes |-> <<>>]

-----------------------------------------------------------------------------
(* /check *)

check_stock(args, renderOk) ==
    /\ ~live.done
    \* backtest_strategy has no await: no handler runs inside its loop
    /\ bt.pc # "loop"
    /\ reply = None
    /\ IF args = <<>>
       THEN /\ reply' = [kind |-> "text", text |-> Str(<<"Usage: /check TICKER">>)]
            /\ UNCHANGED <<live, data>>
       ELSE \E ticker \in {Ticker(args)} :
            \E r \in {check_daily_strategy(ticker, feed, renderOk)} :
            \E has_signal \in {r.ret[1]}, message \in {r.ret[2]}, chart \in {r.ret[3]} :
                /\ live' = [done |-> TRUE, ticker |-> ticker, ret |-> r.ret,
                            evalIdx |-> r.evalIdx, rendered |-> r.rendered,
                            renderOk |-> renderOk]
                /\ data' = IF r.df = NoData THEN data ELSE r.df
                /\ reply' =
                     IF has_signal
                     THEN [kind |-> "photo", photo |-> chart, caption |-> message]
                     ELSE IF Truthy(message)
                     THEN [kind |-> "text", text |-> message]
                     ELSE [kind |-> "text", text |-> Str(<<"No signal for {}", ticker>>)]
    /\ UNCHANGED <<feed, bt>>
    /\ UNCHANGED scanVars

-----------------------------------------------------------------------------
(* /backtest: backtest_strategy, its loop one iteration at a time *)

BacktestStart(args) ==
    /\ bt.pc = "idle"
    /\ IF args = <<>>
       THEN /\ bt' = [bt EXCEPT !.pc = "done",
                                !.result = Str(<<"Usage: /backtest TICKER">>)]
            /\ UNCHANGED data
       ELSE \E ticker \in {Ticker(args)} :
            IF ~feed.ok
            THEN /\ bt' = [bt EXCEPT !.pc = "done", !.ticker = ticker,
                             !.result = Str(<<"Error backtesting {}: {}", ticker, feed.err>>)]
                 /\ UNCHANGED data
            ELSE IF Len(feed.Close) < MIN_BARS
            THEN /\ bt' = [bt EXCEPT !.pc = "done", !.ticker = ticker,
                             !.result = Str(<<"Not enough data for {}.", ticker>>)]
                 /\ UNCHANGED data
            ELSE \E df \in {Augment(feed)} :
                 /\ data' = df
                 /\ bt' = [bt EXCEPT !.pc = "loop", !.ticker = ticker, !.i = RANGE_START]
    /\ UNCHANGED <<feed, live, reply>>
    /\ UNCHANGED scanVars

\* a list put in front of its new element, instead of list.append
PrependSignal(signals, s) == <<s>> \o signals
\* signals.append((date, close))
AppendSignal(signals, s) == Append(signals, s)

\* one iteration of: for i in range(50, len(data))
BacktestIter ==
    /\ bt.pc = "loop"
    /\ bt.i < Len(data.Close)
    /\ \E i \in {bt.i} :
       \E hit \in {All(BacktestConditions(data, i))} :
           bt' = [bt EXCEPT
                    !.visited = Append(@, i),
                    !.signals = IF hit
                                THEN AppendSignal(@, <<StrfTime(At(feed.Index, i)),
                                                       At(data.Close, i)>>)
                                ELSE @,
                    !.i = i + 1]
    /\ UNCHANGED <<feed, data, live, reply>>
    /\ UNCHANGED scanVars

\* after the loop: the result text, which backtest_command replies with
BacktestFinish ==
    /\ bt.pc = "loop"
    /\ bt.i >= Len(data.Close)
    /\ bt' = [bt EXCEPT
                !.pc = "done",
                !.result =
                    IF bt.signals = <<>>
                    THEN Str(<<"No signals found for {} in last {} days.",
                               bt.ticker, LOOKBACK_DAYS>>)
                    ELSE Str(<<"Backtest: {} (last {} days)", bt.ticker, LOOKBACK_DAYS,
                               [k \in 1..Len(bt.signals) |->
                                   <<bt.signals[k][1], Fmt2(bt.signals[k][2])>>]>>)]
    /\ UNCHANGED <<feed, data, live, reply>>
    /\ UNCHANGED scanVars

InitEngine ==
    /\ feed \in Feeds
    /\ data = NoData
    /\ live = LiveIdle
    /\ reply = None
    /\ bt = BtIdle
    /\ CHAT_ID = None
    /\ ScanIdle

NextEngine ==
    \/ \E args \in RawArgs, renderOk \in BOOLEAN : check_stock(args, renderOk)
    \/ \E args \in RawArgs : BacktestStart(args)
    \/ BacktestIter
    \/ BacktestFinish

SpecEngine == InitEngine /\ [][NextEngine]_vars

-----------------------------------------------------------------------------
(* Properties of the on-demand commands, checked under SpecEngine *)

\* the fetched series passed the length check
Accepted == feed.ok /\ Len(feed.Close) >= MIN_BARS
\* backtest_strategy went through its loop and returned
BacktestRan == bt.pc = "done" /\ bt.ticker # "" /\ Accepted
\* the index of the bar a backtest signal (date, close) was recorded at
SignalIndex(s) == s[1][2]
SignalIndices == {SignalIndex(bt.signals[k]) : k \in 1..Len(bt.signals)}

\* the five conditions of the rule at index i of the augmented frame
RuleAt(i) ==
    <<FGt(At(data.Close, i), At(data.EMA_50, i))
          /\ FLe(At(data.Close, i - 1), At(data.EMA_50, i - 1)),
      FGt(At(data.EMA_50, i), At(data.EMA_9, i))
          /\ FGt(At(data.EMA_50, i), At(data.EMA_21, i)),
      FLe(ToF(40), At(data.RSI, i)) /\ FLe(At(data.RSI, i), ToF(70))
          /\ FGt(At(data.RSI, i), At(data.RSI_EMA_20, i)),
      FGt(At(data.MACD_Hist, i), Num(0)),
      FGt(ToF(At(data.Volume, i)),
          Mean(<<At(data.Volume, i - 5), At(data.Volume, i - 4),
                 At(data.Volume, i - 3), At(data.Volume, i - 2)>>))>>
RuleHolds(i) == \A k \in 1..5 : RuleAt(i)[k]

\* C1: the verdict at an evaluated index is positive if and only if all five
\* conditions hold there, in the live check (whose positive verdict carries a
\* non-null explanation) and at every index the backtest visited.
C1_RuleConjunction ==
    /\ (live.done /\ live.evalIdx >= 0) =>
          /\ (live.ret[1] <=> RuleHolds(live.evalIdx))
          /\ (live.ret[1] => Truthy(live.ret[2]))
    /\ \A k \in 1..Len(bt.visited) :
          (bt.visited[k] \in SignalIndices) <=> RuleHolds(bt.visited[k])

\* C6: the chart is rendered only when all five conditions hold, and when they
\* hold check_daily_strategy reports the positive verdict with its explanation
\* whether or not rendering went through.
C6_ChartFailureKeepsVerdict ==
    live.done =>
        /\ live.rendered => RuleHolds(live.evalIdx)
        /\ (live.rendered /\ ~live.renderOk) =>
              (live.ret[1] /\ Truthy(live.ret[2]))

\* the close deltas of the 14-bar window that ends at index i >= 14
WindowDeltas(i) ==
    [j \in 1..14 |-> At(feed.Close, i - 14 + j) - At(feed.Close, i - 15 + j)]

\* C7: at every index whose 14-bar window of deltas is fully available, RSI
\* is exactly 100 when the window holds no negative delta (the all-zero window
\* included), and lies within 0..100 otherwise.
C7_RsiZeroLoss ==
    data # NoData =>
        \A i \in 14..(Len(data.RSI) - 1) :
            IF \A j \in 1..14 : WindowDeltas(i)[j] >= 0
            THEN At(data.RSI, i) = ToF(100)
            ELSE FLe(Num(0), At(data.RSI, i)) /\ FLe(At(data.RSI, i), ToF(100))

\* C8: the rule is evaluated only at indices >= 50; the live check evaluates
\* the final index N-1, and on an accepted series its verdict agrees with
\* whether the backtest of the same series reports index N-1.
C8_EvalIndexBound ==
    /\ (live.done /\ live.evalIdx # -1) =>
          /\ live.evalIdx >= 50
          /\ live.evalIdx = Len(feed.Close) - 1
    /\ \A k \in 1..Len(bt.visited) : bt.visited[k] >= 50
    /\ (live.done /\ BacktestRan) =>
          (live.ret[1] <=> (Len(feed.Close) - 1) \in SignalIndices)

\* C3: the backtest visits 50, 51, ... in ascending order, each index once,
\* and all of 50..N-1 by the time it returns; its signals are in strictly
\* ascending index order, each the (date, close) of a visited bar; the result
\* is the "No signals found" text exactly when the loop ran and found none,
\* the error and not-enough-data outcomes having texts of their own.
C3_MonotonicBacktest ==
    /\ \A k \in 1..Len(bt.visited) : bt.visited[k] = 50 + (k - 1)
    /\ \A j, k \in 1..Len(bt.signals) :
          j < k => SignalIndex(bt.signals[j]) < SignalIndex(bt.signals[k])
    /\ \A k \in 1..Len(bt.signals) :
          /\ \E v \in 1..Len(bt.visited) : bt.visited[v] = SignalIndex(bt.signals[k])
          /\ bt.signals[k] = <<StrfTime(At(feed.Index, SignalIndex(bt.signals[k]))),
                               At(data.Close, SignalIndex(bt.signals[k]))>>
    /\ BacktestRan => Len(bt.visited) = Len(feed.Close) - 50
    /\ (bt.pc = "done" /\ bt.ticker # "") =>
          /\ bt.result.tag = "str"
          /\ bt.result.val[1] =
                (CASE ~feed.ok -> "Error backtesting {}: {}"
                   [] feed.ok /\ Len(feed.Close) <= 49 -> "Not enough data for {}."
                   [] Accepted /\ bt.signals = <<>> ->
                         "No signals found for {} in last {} days."
                   [] OTHER -> "Backtest: {} (last {} days)")

\* a backtest that visited several indices and returned two signals or more
C3_Witness ==
    /\ BacktestRan
    /\ Len(bt.visited) >= 3
    /\ Len(bt.signals) >= 2

\* check_daily_strategy on the inputs a scan can meet, tabulated
ScanRuns ==
    [ticker \in {Watchlist[k] : k \in 1..Len(Watchlist)}, fetched \in ScanFeeds,
     renderOk \in BOOLEAN |-> check_daily_strategy(ticker, fetched, renderOk)]

-----------------------------------------------------------------------------
(* send_auto_signals *)

\* the outcome of check_daily_strategy, as the tally counts it
Outcome(ret) ==
    CASE ret[1] -> "positive"
      [] ret[2] = None -> "negative"
      [] ret[2] = Str(<<"Insufficient data">>) -> "insufficient"
      [] OTHER -> "errors"

Summary == Str(<<"No buy signals found today.">>)

\* the gates without the weekday test
GateOpenAnyDay(chat, t) ==
    /\ Truthy(chat)
    /\ TimeLe(market_open, t.time) /\ TimeLe(t.time, market_close)

\* the three early returns of send_auto_signals
GateOpen(chat, t) ==
    /\ Truthy(chat)
    /\ ~(t.weekday >= 5)
    /\ TimeLe(market_open, t.time) /\ TimeLe(t.time, market_close)

\* a counter that all passes share, incremented
IncFoundShared(sf, p) == [q \in DOMAIN sf |-> sf[q] + 1]
\* signals_found += 1
IncFound(sf, p) == [sf EXCEPT ![p] = @ + 1]

\* the pass holds the event loop from here to its next await
Holds(p) == p
\* an await on the network or on the sleep timer releases the event loop
Yields(p) == 0

\* the gates, then the loop's first iteration or, on no tickers, the summary
Gates(p, t) ==
    /\ now' = [now EXCEPT ![p] = t]
    /\ IF GateOpen(CHAT_ID, t)
       THEN /\ signals_found' = [signals_found EXCEPT ![p] = 0]
            /\ idx' = [idx EXCEPT ![p] = 0]
            /\ IF Len(Watchlist) > 0
               THEN pc' = [pc EXCEPT ![p] = "check"] /\ running' = Holds(p)
               ELSE pc' = [pc EXCEPT ![p] = "send_summary"] /\ running' = Yields(p)
       ELSE /\ pc' = [pc EXCEPT ![p] = "done"]
            /\ running' = 0
            /\ UNCHANGED <<signals_found, idx>>

\* the end of one iteration of the for loop: the next ticker, or the code
\* after the loop; found is signals_found at this point. The iteration's
\* has_signal, message, chart are not read again
NextTicker(p, found) ==
    /\ idx' = [idx EXCEPT ![p] = @ + 1]
    /\ result' = [result EXCEPT ![p] = NoResult]
    /\ IF idx[p] + 1 < Len(Watchlist)
       THEN pc' = [pc EXCEPT ![p] = "check"] /\ running' = Holds(p)
       ELSE IF found = 0
       THEN pc' = [pc EXCEPT ![p] = "send_summary"] /\ running' = Yields(p)
       ELSE pc' = [pc EXCEPT ![p] = "done"] /\ running' = 0

\* an except clause that returns from send_auto_signals
ExceptReturn(p, found) ==
    /\ result' = [result EXCEPT ![p] = NoResult]
    /\ pc' = [pc EXCEPT ![p] = "done"]
    /\ running' = 0
    /\ UNCHANGED idx
\* except Exception as e: logger.error(...); continue
ExceptContinue(p, found) == NextTicker(p, found)

\* job_queue.run_repeating / run_daily call send_auto_signals
TimerFires(p, t) ==
    /\ pc[p] = "idle"
    /\ running = 0
    /\ Gates(p, t)
    /\ UNCHANGED <<CHAT_ID, result, attempted, tally, sent>>
    /\ UNCHANGED engineVars

\* scan_watchlist: await update.message.reply_text("Scanning Nifty 200...")
ScanCommand(p) ==
    /\ pc[p] = "idle"
    /\ running = 0
    /\ pc' = [pc EXCEPT ![p] = "reply"]
    /\ running' = Yields(p)
    /\ UNCHANGED <<CHAT_ID, now, idx, signals_found, result, attempted, tally, sent>>
    /\ UNCHANGED engineVars

\* the reply went out (or raised): scan_watchlist goes on to send_auto_signals
ScanReplied(p, ok, t) ==
    /\ pc[p] = "reply"
    /\ running = 0
    /\ IF ok
       THEN /\ sent' = [sent EXCEPT ![p] =
                           Append(@, [api |-> "reply_text",
                                      text |-> Str(<<"Scanning Nifty 200...">>)])]
            /\ Gates(p, t)
       ELSE /\ pc' = [pc EXCEPT ![p] = "raised"]
            /\ UNCHANGED <<running, now, idx, signals_found, sent>>
    /\ UNCHANGED <<CHAT_ID, result, attempted, tally>>
    /\ UNCHANGED engineVars

\* has_signal, message, chart = await check_daily_strategy(ticker): the
\* coroutine has no await of its own, so this is one uninterrupted step
CheckTicker(p, fetched, renderOk) ==
    /\ pc[p] = "check"
    /\ running = p
    /\ \E ticker \in {Watchlist[idx[p] + 1]} :
       \E r \in {ScanRuns[ticker, fetched, renderOk]} :
          /\ attempted' = [attempted EXCEPT ![p] = Append(@, ticker)]
          /\ tally' = [tally EXCEPT ![p][Outcome(r.ret)] = @ + 1]
          /\ IF r.ret[1]
             THEN /\ result' = [result EXCEPT ![p] = r.ret]
                  /\ pc' = [pc EXCEPT ![p] = "send_photo"]
                  /\ running' = Yields(p)
                  /\ UNCHANGED idx
             ELSE NextTicker(p, signals_found[p])
    /\ UNCHANGED <<CHAT_ID, now, signals_found, sent>>
    /\ UNCHANGED engineVars

\* await context.bot.send_photo(...) returns or raises; on return
\* signals_found += 1 and the pass awaits asyncio.sleep(1); on an exception
\* the except clause logs and continues with the next ticker
PhotoSent(p, ok) ==
    /\ pc[p] = "send_photo"
    /\ running = 0
    /\ IF ok
       THEN /\ sent' = [sent EXCEPT ![p] =
                          Append(@, [api |-> "send_photo", chat_id |-> CHAT_ID,
                                     photo |-> result[p][3], caption |-> result[p][2]])]
            /\ signals_found' = IncFound(signals_found, p)
            /\ pc' = [pc EXCEPT ![p] = "sleep"]
            /\ running' = Yields(p)
            /\ UNCHANGED <<idx, result, tally>>
       ELSE /\ tally' = [tally EXCEPT ![p].undelivered = @ + 1]
            /\ ExceptContinue(p, signals_found[p])
            /\ UNCHANGED <<sent, signals_found>>
    /\ UNCHANGED <<CHAT_ID, now, attempted>>
    /\ UNCHANGED engineVars

\* asyncio.sleep(1) is over
SleepDone(p) ==
    /\ pc[p] = "sleep"
    /\ running = 0
    /\ NextTicker(p, signals_found[p])
    /\ UNCHANGED <<CHAT_ID, now, signals_found, attempted, tally, sent>>
    /\ UNCHANGED engineVars

\* if signals_found == 0: await context.bot.send_message(...), which returns,
\* or raises out of send_auto_signals
SummarySent(p, ok) ==
    /\ pc[p] = "send_summary"
    /\ running = 0
    /\ IF ok
       THEN /\ sent' = [sent EXCEPT ![p] =
                          Append(@, [api |-> "send_message", chat_id |-> CHAT_ID,
                                     text |-> Summary])]
            /\ pc' = [pc EXCEPT ![p] = "done"]
       ELSE /\ pc' = [pc EXCEPT ![p] = "raised"]
            /\ UNCHANGED sent
    /\ UNCHANGED <<CHAT_ID, running, now, idx, signals_found, result,
                   attempted, tally>>
    /\ UNCHANGED engineVars

Init ==
    /\ feed = FetchError
    /\ data = NoData
    /\ live = LiveIdle
    /\ reply = None
    /\ bt = BtIdle
    /\ CHAT_ID \in ChatIds
    /\ ScanIdle

Next ==
    \E p \in Passes :
        \/ \E t \in Nows : TimerFires(p, t)
        \/ ScanCommand(p)
        \/ \E ok \in BOOLEAN, t \in Nows : ScanReplied(p, ok, t)
        \/ \E fetched \in ScanFeeds, renderOk \in BOOLEAN : CheckTicker(p, fetched, renderOk)
        \/ \E ok \in BOOLEAN : PhotoSent(p, ok)
        \/ SleepDone(p)
        \/ \E ok \in BOOLEAN : SummarySent(p, ok)

Spec == Init /\ [][Next]_vars

-----------------------------------------------------------------------------
(* Properties of the scans, checked under Spec *)

\* what pass p sent to the channel: everything but the reply to /scan
Channel(p) == SelectSeq(sent[p], LAMBDA m : m.api # "reply_text")
Photos(p) == SelectSeq(sent[p], LAMBDA m : m.api = "send_photo")
SummarySentBy(p) ==
    \E k \in 1..Len(sent[p]) :
        /\ sent[p][k].api = "send_message"
        /\ sent[p][k].text = Str(<<"No buy signals found today.">>)
\* pass p has read the clock at its gates
GatesRead(p) == now[p] # NoNow
SecondOfDay(t) == t.h * 3600 + t.m * 60 + t.s
\* the destination is configured, the day is Monday..Friday, the time is
\* within 09:15..15:30
InsideGates(p) ==
    /\ CHAT_ID # None /\ CHAT_ID # Str(<<>>)
    /\ now[p].weekday \in 0..4
    /\ SecondOfDay(now[p].time) >= 9 * 3600 + 15 * 60
    /\ SecondOfDay(now[p].time) <= 15 * 3600 + 30 * 60
\* pass p went through the whole watchlist and returned
Completed(p) == pc[p] = "done" /\ attempted[p] = Watchlist
InOrder(p) ==
    /\ Len(attempted[p]) <= Len(Watchlist)
    /\ attempted[p] = SubSeq(Watchlist, 1, Len(attempted[p]))

\* C2: a series of 49 bars or fewer yields the insufficient-data outcome in
\* the live check and in the backtest, /check replies with it, and a scan
\* whose tickers all came back with insufficient data does not send the
\* channel what a scan whose tickers all came back negative sends.
C2_InsufficientDistinct ==
    /\ (feed.ok /\ Len(feed.Close) <= 49 /\ live.done) =>
          /\ live.ret = <<FALSE, Str(<<"Insufficient data">>), None>>
          /\ reply = [kind |-> "text", text |-> Str(<<"Insufficient data">>)]
    /\ (feed.ok /\ Len(feed.Close) <= 49 /\ bt.pc = "done" /\ bt.ticker # "") =>
          /\ bt.signals = <<>>
          /\ bt.result = Str(<<"Not enough data for {}.", bt.ticker>>)
    /\ \A p, q \in Passes :
          (/\ Completed(p) /\ tally[p].insufficient = Len(Watchlist)
           /\ Completed(q) /\ tally[q].negative = Len(Watchlist))
          => Channel(p) # Channel(q)

\* C4: a pass attempts the watchlist's tickers in watchlist order, each once;
\* past its gates it ends only after the last ticker, whatever failed on the
\* way, and it sends the channel no error text.
C4_FailureIsolation ==
    \A p \in Passes :
        /\ InOrder(p)
        /\ (GatesRead(p) /\ InsideGates(p) /\ pc[p] \in {"done", "send_summary"})
              => attempted[p] = Watchlist
        /\ (GatesRead(p) /\ pc[p] = "raised") => attempted[p] = Watchlist
        /\ \A k \in 1..Len(sent[p]) :
              CASE sent[p][k].api = "send_photo" ->
                      sent[p][k].caption.val[1] # "Error checking {}: {}"
                [] sent[p][k].api = "send_message" ->
                      sent[p][k].text.val[1] # "Error checking {}: {}"
                [] OTHER -> TRUE

\* a completed pass in which one ticker failed in check_daily_strategy and the
\* delivery of another ticker's photo failed
C4_Witness ==
    \E p \in Passes :
        /\ Completed(p)
        /\ tally[p].errors > 0
        /\ tally[p].undelivered > 0

\* C5: at the end of a full pass the summary has been sent if and only if no
\* ticker of the pass produced a positive verdict.
C5_SummaryIffNoPositive ==
    \A p \in Passes :
        Completed(p) => (SummarySentBy(p) <=> tally[p].positive = 0)

\* C9: a pass that evaluated a ticker or sent the channel anything read the
\* clock inside the gates, with the destination configured; a pass whose
\* gate failed has returned, having evaluated and sent nothing.
C9_ScanGating ==
    \A p \in Passes :
        /\ (\/ attempted[p] # <<>>
            \/ Channel(p) # <<>>
            \/ pc[p] \in {"check", "send_photo", "sleep", "send_summary"})
              => (GatesRead(p) /\ InsideGates(p))
        /\ (GatesRead(p) /\ ~InsideGates(p))
              => (pc[p] = "done" /\ attempted[p] = <<>> /\ Channel(p) = <<>>)

\* a pass started by /scan that stopped at a gate, next to a pass started by
\* a timer, inside the gates, that delivered a photo
C9_Witness ==
    \E p, q \in Passes :
        /\ GatesRead(p) /\ ~InsideGates(p)
        /\ Len(sent[p]) = 1 /\ sent[p][1].api = "reply_text"
        /\ pc[p] = "done"
        /\ GatesRead(q) /\ InsideGates(q)
        /\ sent[q] # <<>> /\ sent[q][1].api = "send_photo"

\* C10: with passes interleaving, each pass attempts the watchlist in order,
\* its signals_found counts its own delivered photos, it sends the summary
\* exactly when it delivered none, and while a pass is in its
\* fetch-and-evaluate step no other pass moves.
C10_OverlappingScans ==
    /\ [](\A p \in Passes :
            /\ InOrder(p)
            /\ signals_found[p] = Len(Photos(p))
            /\ pc[p] = "send_summary" => (attempted[p] = Watchlist /\ Photos(p) = <<>>)
            /\ Completed(p) => (SummarySentBy(p) <=> Photos(p) = <<>>)
            /\ running = p => pc[p] = "check")
    /\ [][\A p, q \in Passes :
            (running = p /\ q # p) =>
                /\ pc'[q] = pc[q]
                /\ idx'[q] = idx[q]
                /\ signals_found'[q] = signals_found[q]
                /\ attempted'[q] = attempted[q]
                /\ sent'[q] = sent[q]]_vars

\* two passes in flight at once: one pacing after a delivered photo, the
\* other past its first ticker with nothing delivered
C10_Witness ==
    \E p, q \in Passes :
        /\ p # q
        /\ pc[p] = "sleep" /\ signals_found[p] > 0
        /\ pc[q] \in {"check", "send_photo"}
        /\ attempted[q] # <<>> /\ signals_found[q] = 0

====
